---- MODULE Spec2Model ----
(***************************************************************************)
(* Threat-intel backend: token authentication, role hierarchy and order    *)
(* workflow.  The domain entities, the JWT service, the two application    *)
(* services and the gin middleware are operators computed as the Go code   *)
(* computes them; the actions apply them to the stores.                    *)
(*                                                                         *)
(* Time is counted in minutes.  A nil pointer is the empty sequence <<>>   *)
(* and a non-nil pointer to v is <<v>>; a nil error is the empty string.   *)
(***************************************************************************)
EXTENDS Integers, Sequences, FiniteSets, TLC

VARIABLES
    users,      \* user store: the stored domain.User rows, in order of storage
    orders,     \* order store: the stored domain.Order rows, in order of storage
    held,       \* the token pair a client received in an AuthResponse and kept (<<>>: none)
    now,        \* time.Now(), in minutes
    ticks,      \* number of clock advances so far (caps the clock)
    last,       \* the last call: its operation, arguments and returned values
    agg,        \* an in-memory domain.OrderAggregate (<<>> before NewOrder)
    limiter,    \* the rate.Limiter of the RateLimit middleware
    flights     \* the requests in flight through RateLimit, and the limiter's mutex

vars == <<users, orders, held, now, ticks, last, agg, limiter, flights>>

----------------------------------------------------------------------------
(* Bounds of the model *)

MaxOrders == 1
MaxTicks == 1

(* Inputs *)

Emails == {"a@example.com", "b@example.com"}
Passwords == {"password123", "wrongpassword"}

----------------------------------------------------------------------------
(* domain: roles and users *)

RoleAdmin == "admin"
RoleAnalyst == "analyst"
RoleViewer == "viewer"

\* UserRole is a string type: nothing restricts a role to the three constants.
\* "guest" stands for every role string outside them.
Roles == {RoleViewer, RoleAnalyst, RoleAdmin, "guest"}

NilUUID == 0

\* uuid.UUID.String and uuid.Parse: a UUID prints as <<"uuid", n>>; every
\* other string fails to parse.
UUIDString(id) == <<"uuid", id>>

UUIDParse(s) ==
    IF s[1] = "uuid"
    THEN [id |-> s[2], err |-> ""]
    ELSE [id |-> NilUUID, err |-> "invalid UUID length"]

\* bcrypt.GenerateFromPassword: a salted one-way hash.
GenerateFromPassword(password, salt) == [salt |-> salt, digest |-> <<salt, password>>]

\* Mutant: the comparison re-hashes with a salt of its own.
CompareHashAndPassword_OwnSalt(hash, password) ==
    GenerateFromPassword(password, NilUUID) = hash

\* bcrypt.CompareHashAndPassword: re-hash with the stored salt and compare.
CompareHashAndPassword(hash, password) ==
    GenerateFromPassword(password, hash.salt) = hash

NewUser(id, email, password, role) ==
    [ID |-> id,
     Email |-> email,
     PasswordHash |-> GenerateFromPassword(password, id),
     Role |-> role,
     IsActive |-> TRUE]

ValidatePassword(u, password) == CompareHashAndPassword(u.PasswordHash, password)

\* The roleHierarchy map of User.HasPermission; a missing key reads as 0.
\* Mutant: analyst and admin have each other's rank.
roleHierarchy_Swapped(role) ==
    CASE role = RoleViewer -> 1
      [] role = RoleAnalyst -> 3
      [] role = RoleAdmin -> 2
      [] OTHER -> 0

roleHierarchy(role) ==
    CASE role = RoleViewer -> 1
      [] role = RoleAnalyst -> 2
      [] role = RoleAdmin -> 3
      [] OTHER -> 0

\* Mutant: a role satisfies only the requirements below its own.
HasPermission_Strict(u, requiredRole) ==
    roleHierarchy(u.Role) > roleHierarchy(requiredRole)

HasPermission(u, requiredRole) ==
    roleHierarchy(u.Role) >= roleHierarchy(requiredRole)

----------------------------------------------------------------------------
(* domain: orders *)

OrderStatusPending == "pending"
OrderStatusConfirmed == "confirmed"
OrderStatusCompleted == "completed"
OrderStatusCancelled == "cancelled"

\* id is the value of uuid.New(), t of time.Now().
NewOrder(id, userID, itemID, quantity, t) ==
    [ID |-> id,
     UserID |-> userID,
     ItemID |-> itemID,
     Quantity |-> quantity,
     Status |-> OrderStatusPending,
     CreatedAt |-> t,
     UpdatedAt |-> t]

\* Mutant: the status changes but the update timestamp is kept.
Confirm_KeepTimestamp(o, t) == [o EXCEPT !.Status = OrderStatusConfirmed]

Confirm(o, t) == [o EXCEPT !.Status = OrderStatusConfirmed, !.UpdatedAt = t]

Complete(o, t) == [o EXCEPT !.Status = OrderStatusCompleted, !.UpdatedAt = t]

Cancel(o, t) == [o EXCEPT !.Status = OrderStatusCancelled, !.UpdatedAt = t]

----------------------------------------------------------------------------
(* infrastructure/jwt: Service *)

\* s.secretKey of the running service, and the key of a foreign signer.
SecretKey == "server-secret"
OtherKey == "other-secret"

AccessTokenTTL == 15
RefreshTokenTTL == 7 * 24 * 60

\* A signed token string: its JSON claims and the key of its signature.
\* Signing with HS256 and a []byte key returns no error.
SignedString(claims, key) == [form |-> "jwt", claims |-> claims, key |-> key]

\* A string that is no JWT at all.
InvalidToken == [form |-> "text"]

\* Mutant: the access token gets the lifetime of a refresh token.
GenerateAccessToken_LongLived(key, userID, role, t) ==
    SignedString([user_id |-> userID,
                  role |-> role,
                  exp |-> t + RefreshTokenTTL,
                  iat |-> t,
                  sub |-> UUIDString(userID)], key)

GenerateAccessToken(key, userID, role, t) ==
    SignedString([user_id |-> userID,
                  role |-> role,
                  exp |-> t + AccessTokenTTL,
                  iat |-> t,
                  sub |-> UUIDString(userID)], key)

\* Mutant: the refresh token carries no subject.
GenerateRefreshToken_NoSubject(key, userID, t) ==
    SignedString([exp |-> t + RefreshTokenTTL, iat |-> t], key)

GenerateRefreshToken(key, userID, t) ==
    SignedString([exp |-> t + RefreshTokenTTL,
                  iat |-> t,
                  sub |-> UUIDString(userID)], key)

\* Mutant: the signature is not verified.
ParseWithClaims_AnyKey(tok, key, t) ==
    IF tok.form # "jwt" THEN "token is malformed"
    ELSE IF "exp" \in DOMAIN tok.claims /\ ~(t < tok.claims.exp) THEN "token is expired"
    ELSE ""

\* jwt.ParseWithClaims with the key function returning s.secretKey: the token
\* is split, its signature verified, then its registered claims validated
\* (an exp claim, when present, must lie after the current time).
ParseWithClaims(tok, key, t) ==
    IF tok.form # "jwt" THEN "token is malformed"
    ELSE IF tok.key # key THEN "token signature is invalid"
    ELSE IF "exp" \in DOMAIN tok.claims /\ ~(t < tok.claims.exp) THEN "token is expired"
    ELSE ""

\* JSON decoding into a struct: an absent field keeps its zero value.
Field(claims, f, zero) == IF f \in DOMAIN claims THEN claims[f] ELSE zero

ValidateAccessToken(key, tok, t) ==
    LET err == ParseWithClaims(tok, key, t) IN
    IF err # ""
    THEN [claims |-> <<>>, err |-> err]
    ELSE [claims |-> <<[UserID |-> Field(tok.claims, "user_id", NilUUID),
                        Role |-> Field(tok.claims, "role", ""),
                        Subject |-> Field(tok.claims, "sub", <<"", 0>>)]>>,
          err |-> ""]

\* Mutant: a subject that is no UUID reads as the nil UUID.
ValidateRefreshToken_AnySubject(key, tok, t) ==
    LET err == ParseWithClaims(tok, key, t) IN
    IF err # ""
    THEN [id |-> NilUUID, err |-> err]
    ELSE [id |-> UUIDParse(Field(tok.claims, "sub", <<"", 0>>)).id, err |-> ""]

ValidateRefreshToken(key, tok, t) ==
    LET err == ParseWithClaims(tok, key, t) IN
    IF err # ""
    THEN [id |-> NilUUID, err |-> err]
    ELSE UUIDParse(Field(tok.claims, "sub", <<"", 0>>))

----------------------------------------------------------------------------
(* infrastructure/postgres: the repositories *)

SetMin(S) == CHOOSE x \in S : \A y \in S : x <= y

\* First row matching the condition, or nil and an error.
FindUserByID(us, id) ==
    LET m == {i \in 1..Len(us) : us[i].ID = id} IN
    IF m = {} THEN <<>> ELSE <<us[SetMin(m)]>>

FindByEmail(us, email) ==
    LET m == {i \in 1..Len(us) : us[i].Email = email} IN
    IF m = {} THEN <<>> ELSE <<us[SetMin(m)]>>

\* db.Save: insert the row, or update the row with the same primary key.
SaveUser(us, u) ==
    LET m == {i \in 1..Len(us) : us[i].ID = u.ID} IN
    IF m = {} THEN Append(us, u) ELSE [us EXCEPT ![SetMin(m)] = u]

\* The uniqueIndex on User.Email: the insert or update of u is refused when
\* another row has its email.
ErrDuplicateKey == "duplicate key value violates unique constraint"

UniqueViolation(us, u) ==
    \E i \in 1..Len(us) : us[i].Email = u.Email /\ us[i].ID # u.ID

\* OrderRepository.FindByID: the first row with the id, its User preloaded.
FindOrderByID(os, us, id) ==
    LET m == {i \in 1..Len(os) : os[i].ID = id} IN
    IF m = {} THEN <<>>
    ELSE <<[row |-> os[SetMin(m)], User |-> FindUserByID(us, os[SetMin(m)].UserID)]>>

\* OrderRepository.FindByUserID: the rows of the user, in order of storage.
SelectOrders(os, i, userID) ==
    SelectSeq(SubSeq(os, 1, i), LAMBDA o : o.UserID = userID)

FindByUserID(os, userID) == SelectOrders(os, Len(os), userID)

SaveOrder(os, o) ==
    LET m == {i \in 1..Len(os) : os[i].ID = o.ID} IN
    IF m = {} THEN Append(os, o) ELSE [os EXCEPT ![SetMin(m)] = o]

\* The error of a lookup that finds no row (gorm.ErrRecordNotFound).
ErrRecordNotFound == "record not found"

\* What a failing store call returns.
StoreErrors == {"", "save failed"}

----------------------------------------------------------------------------
(* application: AuthService *)

AuthResponse(access, refresh, user) ==
    [AccessToken |-> access, RefreshToken |-> refresh, User |-> user]

AuthFail(err, us) == [resp |-> <<>>, err |-> err, users |-> us]

IssueTokens(user, t, us) ==
    [resp |-> <<AuthResponse(GenerateAccessToken(SecretKey, user.ID, user.Role, t),
                             GenerateRefreshToken(SecretKey, user.ID, t),
                             user)>>,
     err |-> "",
     users |-> us]

\* Mutant: the password is checked before the active flag.
AuthServiceLogin_PasswordFirst(us, email, password, t) ==
    LET found == FindByEmail(us, email) IN
    IF found = <<>> THEN AuthFail("invalid credentials", us)
    ELSE IF ~ValidatePassword(found[1], password) THEN AuthFail("invalid credentials", us)
    ELSE IF ~found[1].IsActive THEN AuthFail("account is inactive", us)
    ELSE IssueTokens(found[1], t, us)

AuthServiceLogin(us, email, password, t) ==
    LET found == FindByEmail(us, email) IN
    IF found = <<>> THEN AuthFail("invalid credentials", us)
    ELSE IF ~found[1].IsActive THEN AuthFail("account is inactive", us)
    ELSE IF ~ValidatePassword(found[1], password) THEN AuthFail("invalid credentials", us)
    ELSE IssueTokens(found[1], t, us)

\* Mutant: the user is stored although the call fails with the error of Save.
AuthServiceRegister_StoredOnFailure(us, email, password, role, id, saveErr, t) ==
    IF FindByEmail(us, email) # <<>> THEN AuthFail("email already exists", us)
    ELSE LET user == NewUser(id, email, password, role) IN
         IF saveErr # "" THEN AuthFail(saveErr, SaveUser(us, user))
         ELSE IssueTokens(user, t, SaveUser(us, user))

\* id is the value of uuid.New() in NewUser, saveErr what userRepo.Save returns.
AuthServiceRegister(us, email, password, role, id, saveErr, t) ==
    IF FindByEmail(us, email) # <<>> THEN AuthFail("email already exists", us)
    ELSE LET user == NewUser(id, email, password, role) IN
         IF saveErr # "" THEN AuthFail(saveErr, us)
         ELSE IssueTokens(user, t, SaveUser(us, user))

\* Mutant: the new access token takes its role from the presented token.
AuthServiceRefreshToken_TokenRole(us, refreshToken, t) ==
    LET v == ValidateRefreshToken(SecretKey, refreshToken, t) IN
    IF v.err # "" THEN AuthFail("invalid refresh token", us)
    ELSE LET found == FindUserByID(us, v.id) IN
         IF found = <<>> THEN AuthFail("user not found", us)
         ELSE IssueTokens([found[1] EXCEPT !.Role = Field(refreshToken.claims, "role", "")],
                          t, us)

\* Mutant: the response hands back the presented refresh token.
AuthServiceRefreshToken_SameRefreshToken(us, refreshToken, t) ==
    LET v == ValidateRefreshToken(SecretKey, refreshToken, t) IN
    IF v.err # "" THEN AuthFail("invalid refresh token", us)
    ELSE LET found == FindUserByID(us, v.id) IN
         IF found = <<>> THEN AuthFail("user not found", us)
         ELSE [IssueTokens(found[1], t, us) EXCEPT !.resp[1].RefreshToken = refreshToken]

AuthServiceRefreshToken(us, refreshToken, t) ==
    LET v == ValidateRefreshToken(SecretKey, refreshToken, t) IN
    IF v.err # "" THEN AuthFail("invalid refresh token", us)
    ELSE LET found == FindUserByID(us, v.id) IN
         IF found = <<>> THEN AuthFail("user not found", us)
         ELSE IssueTokens(found[1], t, us)

----------------------------------------------------------------------------
(* application: OrderService *)

validItems == {"intel-basic", "intel-premium", "intel-enterprise"}

\* A result of CreateOrder: the response, the error, the order store after
\* the call and the store calls the call made, in order.
OrderResult(resp, err, os, calls) ==
    [resp |-> resp, err |-> err, orders |-> os, calls |-> calls]

\* Mutant: the user is loaded before the item is checked.
OrderServiceCreateOrder_UserFirst(us, os, userID, itemID, quantity, id, saveErr, t) ==
    LET found == FindUserByID(us, userID)
        find == [call |-> "userRepo.FindByID", arg |-> userID]
    IN
    IF found = <<>> THEN OrderResult(<<>>, "user not found", os, <<find>>)
    ELSE IF itemID \notin validItems THEN OrderResult(<<>>, "invalid item_id", os, <<find>>)
    ELSE IF ~HasPermission(found[1], RoleViewer)
    THEN OrderResult(<<>>, "insufficient permissions", os, <<find>>)
    ELSE LET order == Confirm(NewOrder(id, userID, itemID, quantity, t), t)
             save == [call |-> "orderRepo.Save", arg |-> order]
         IN
         IF saveErr # "" THEN OrderResult(<<>>, saveErr, os, <<find, save>>)
         ELSE OrderResult(<<[OrderID |-> UUIDString(order.ID), Status |-> order.Status]>>,
                          "", SaveOrder(os, order), <<find, save>>)

\* id is the value of uuid.New() in NewOrder, saveErr what orderRepo.Save returns.
OrderServiceCreateOrder(us, os, userID, itemID, quantity, id, saveErr, t) ==
    IF itemID \notin validItems THEN OrderResult(<<>>, "invalid item_id", os, <<>>)
    ELSE LET found == FindUserByID(us, userID)
             find == [call |-> "userRepo.FindByID", arg |-> userID]
         IN
         IF found = <<>> THEN OrderResult(<<>>, "user not found", os, <<find>>)
         ELSE IF ~HasPermission(found[1], RoleViewer)
         THEN OrderResult(<<>>, "insufficient permissions", os, <<find>>)
         ELSE LET order == Confirm(NewOrder(id, userID, itemID, quantity, t), t)
                  save == [call |-> "orderRepo.Save", arg |-> order]
              IN
              IF saveErr # "" THEN OrderResult(<<>>, saveErr, os, <<find, save>>)
              ELSE OrderResult(<<[OrderID |-> UUIDString(order.ID), Status |-> order.Status]>>,
                               "", SaveOrder(os, order), <<find, save>>)

OrderServiceGetOrder(us, os, orderID, userID) ==
    LET order == FindOrderByID(os, us, orderID) IN
    IF order = <<>> THEN [order |-> <<>>, err |-> ErrRecordNotFound]
    ELSE LET user == FindUserByID(us, userID) IN
         IF user = <<>> THEN [order |-> <<>>, err |-> ErrRecordNotFound]
         ELSE IF order[1].row.UserID # userID /\ ~HasPermission(user[1], RoleAnalyst)
         THEN [order |-> <<>>, err |-> "access denied"]
         ELSE [order |-> order, err |-> ""]

\* findErr is the error of orderRepo.FindByUserID, returned with the rows.
OrderServiceGetUserOrders(os, userID, findErr) ==
    IF findErr # "" THEN [orders |-> <<>>, err |-> findErr]
    ELSE [orders |-> FindByUserID(os, userID), err |-> ""]

----------------------------------------------------------------------------
(* interfaces/http: the gin context and the middleware *)

\* A gin.Context while a request is served, with the stores and the limiter
\* the handlers work on: the response written so far, the keys set on the
\* context, the handlers that ran and the strings that were given to
\* ValidateAccessToken.
NewContext(us, os, lim) ==
    [status |-> 0, body |-> <<>>, aborted |-> FALSE,
     user_id |-> <<>>, user_role |-> <<>>,
     ran |-> <<>>, validated |-> <<>>,
     users |-> us, orders |-> os, limiter |-> lim]

JSON(c, status, body) == [c EXCEPT !.status = status, !.body = body]

Abort(c) == [c EXCEPT !.aborted = TRUE]

ErrorBody(msg) == [error |-> msg]

\* A header value is a sequence of parts: a literal text or a token.
Text(s) == [text |-> s]
Tok(t) == [tok |-> t]
BearerPrefix == Text("Bearer ")

\* strings.TrimPrefix
TrimPrefix(h, prefix) == IF h # <<>> /\ Head(h) = prefix THEN Tail(h) ELSE h

\* The token that a string spells: a string that is not exactly one token
\* is no JWT.
AsToken(str) ==
    IF Len(str) = 1 /\ "tok" \in DOMAIN str[1] THEN str[1].tok ELSE InvalidToken

\* rate.NewLimiter(rate.Every(time.Minute), 60): a bucket of Burst tokens,
\* full at first, refilled with one token every RefillMinutes.
Burst == 60
RefillMinutes == 1

NewLimiter == [tokens |-> Burst, last |-> 0]

\* Limiter.Allow at time t: the bucket is topped up for the time elapsed
\* since the last admission; the call takes one token if there is one, and
\* leaves the limiter as it was if there is none.
\* Mutant: the call is admitted while the bucket is not below zero.
LimiterAllow_OneMore(lim, t) ==
    LET elapsed == IF t > lim.last THEN t - lim.last ELSE 0
        filled == lim.tokens + (elapsed \div RefillMinutes)
        tokens == IF filled > Burst THEN Burst ELSE filled
    IN
    IF tokens >= 0
    THEN [ok |-> TRUE, lim |-> [tokens |-> tokens - 1, last |-> t]]
    ELSE [ok |-> FALSE, lim |-> lim]

LimiterAllow(lim, t) ==
    LET elapsed == IF t > lim.last THEN t - lim.last ELSE 0
        filled == lim.tokens + (elapsed \div RefillMinutes)
        tokens == IF filled > Burst THEN Burst ELSE filled
    IN
    IF tokens >= 1
    THEN [ok |-> TRUE, lim |-> [tokens |-> tokens - 1, last |-> t]]
    ELSE [ok |-> FALSE, lim |-> lim]

CORS(c, req) ==
    IF req.method = "OPTIONS" THEN Abort([c EXCEPT !.status = 204]) ELSE c

RateLimit(c, t) ==
    LET a == LimiterAllow(c.limiter, t) IN
    IF ~a.ok THEN Abort(JSON(c, 429, ErrorBody("Rate limit exceeded")))
    ELSE [c EXCEPT !.limiter = a.lim]

\* Mutant: an invalid token is answered 401 but the chain is not aborted.
Auth_NoAbort(c, req, t) ==
    LET authHeader == req.header
        tokenString == TrimPrefix(authHeader, BearerPrefix)
    IN
    IF authHeader = <<>>
    THEN Abort(JSON(c, 401, ErrorBody("Authorization header required")))
    ELSE IF tokenString = authHeader
    THEN Abort(JSON(c, 401, ErrorBody("Bearer token required")))
    ELSE LET v == ValidateAccessToken(SecretKey, AsToken(tokenString), t)
             c1 == [c EXCEPT !.validated = Append(@, tokenString)]
         IN
         IF v.err # "" THEN JSON(c1, 401, ErrorBody("Invalid token"))
         ELSE [c1 EXCEPT !.user_id = <<v.claims[1].UserID>>,
                         !.user_role = <<v.claims[1].Role>>]

\* Mutant: the role attached is the role stored for the user of the token.
Auth_StoredRole(c, req, t) ==
    LET authHeader == req.header
        tokenString == TrimPrefix(authHeader, BearerPrefix)
    IN
    IF authHeader = <<>>
    THEN Abort(JSON(c, 401, ErrorBody("Authorization header required")))
    ELSE IF tokenString = authHeader
    THEN Abort(JSON(c, 401, ErrorBody("Bearer token required")))
    ELSE LET v == ValidateAccessToken(SecretKey, AsToken(tokenString), t)
             c1 == [c EXCEPT !.validated = Append(@, tokenString)]
         IN
         IF v.err # "" THEN Abort(JSON(c1, 401, ErrorBody("Invalid token")))
         ELSE LET found == FindUserByID(c.users, v.claims[1].UserID) IN
              [c1 EXCEPT !.user_id = <<v.claims[1].UserID>>,
                         !.user_role = <<IF found = <<>> THEN v.claims[1].Role
                                         ELSE found[1].Role>>]

Auth(c, req, t) ==
    LET authHeader == req.header
        tokenString == TrimPrefix(authHeader, BearerPrefix)
    IN
    IF authHeader = <<>>
    THEN Abort(JSON(c, 401, ErrorBody("Authorization header required")))
    ELSE IF tokenString = authHeader
    THEN Abort(JSON(c, 401, ErrorBody("Bearer token required")))
    ELSE LET v == ValidateAccessToken(SecretKey, AsToken(tokenString), t)
             c1 == [c EXCEPT !.validated = Append(@, tokenString)]
         IN
         IF v.err # "" THEN Abort(JSON(c1, 401, ErrorBody("Invalid token")))
         ELSE [c1 EXCEPT !.user_id = <<v.claims[1].UserID>>,
                         !.user_role = <<v.claims[1].Role>>]

\* Mutant: the map of the middleware has no entry for viewer.
middlewareRoleHierarchy_NoViewer(role) ==
    CASE role = RoleAnalyst -> 2
      [] role = RoleAdmin -> 3
      [] OTHER -> 0

\* The roleHierarchy map of Middleware.RequireRole; a missing key reads as 0.
middlewareRoleHierarchy(role) ==
    CASE role = RoleViewer -> 1
      [] role = RoleAnalyst -> 2
      [] role = RoleAdmin -> 3
      [] OTHER -> 0

\* Mutant: a role is rejected unless it ranks above the required one.
RequireRole_Above(c, requiredRole) ==
    IF c.user_role = <<>>
    THEN Abort(JSON(c, 401, ErrorBody("User role not found")))
    ELSE IF middlewareRoleHierarchy(c.user_role[1]) <= middlewareRoleHierarchy(requiredRole)
    THEN Abort(JSON(c, 403, ErrorBody("Insufficient permissions")))
    ELSE c

RequireRole(c, requiredRole) ==
    IF c.user_role = <<>>
    THEN Abort(JSON(c, 401, ErrorBody("User role not found")))
    ELSE IF middlewareRoleHierarchy(c.user_role[1]) < middlewareRoleHierarchy(requiredRole)
    THEN Abort(JSON(c, 403, ErrorBody("Insufficient permissions")))
    ELSE c

----------------------------------------------------------------------------
(* interfaces/http: the handlers *)

\* The binding rules of the request structs: required fields are not the
\* zero value, an email is an address, a password has six characters or more.
IsEmail(str) == str \in Emails

BindLoginRequest(b) ==
    /\ {"email", "password"} \subseteq DOMAIN b
    /\ IsEmail(b.email)
    /\ Len(b.password) >= 6

BindRegisterRequest(b) ==
    /\ BindLoginRequest(b)
    /\ "role" \in DOMAIN b
    /\ b.role # ""

BindRefreshRequest(b) == "refresh_token" \in DOMAIN b

BindCreateOrderRequest(b) ==
    /\ {"item_id", "quantity"} \subseteq DOMAIN b
    /\ b.item_id # ""
    /\ b.quantity >= 1

BadRequest(c) == JSON(c, 400, ErrorBody("binding failed"))

HandlerHealth(c) == JSON(c, 200, [status |-> "healthy"])

HandlerLogin(c, req, t) ==
    IF ~BindLoginRequest(req.body) THEN BadRequest(c)
    ELSE LET r == AuthServiceLogin(c.users, req.body.email, req.body.password, t) IN
         IF r.err # "" THEN JSON(c, 401, ErrorBody(r.err))
         ELSE JSON(c, 200, r.resp[1])

\* in.userID and in.saveErr: the value of uuid.New() and what the store's
\* Save returns during this request.
HandlerRegister(c, req, t, in) ==
    IF ~BindRegisterRequest(req.body) THEN BadRequest(c)
    ELSE LET r == AuthServiceRegister(c.users, req.body.email, req.body.password,
                                      req.body.role, in.userID, in.saveErr, t) IN
         IF r.err # "" THEN JSON(c, 400, ErrorBody(r.err))
         ELSE JSON([c EXCEPT !.users = r.users], 201, r.resp[1])

HandlerRefreshToken(c, req, t) ==
    IF ~BindRefreshRequest(req.body) THEN BadRequest(c)
    ELSE LET r == AuthServiceRefreshToken(c.users, req.body.refresh_token, t) IN
         IF r.err # "" THEN JSON(c, 401, ErrorBody(r.err))
         ELSE JSON(c, 200, r.resp[1])

HandlerCreateOrder(c, req, t, in) ==
    IF c.user_id = <<>> THEN JSON(c, 401, ErrorBody("User ID not found"))
    ELSE IF ~BindCreateOrderRequest(req.body) THEN BadRequest(c)
    ELSE LET r == OrderServiceCreateOrder(c.users, c.orders, c.user_id[1],
                                          req.body.item_id, req.body.quantity,
                                          in.orderID, in.saveErr, t) IN
         IF r.err # "" THEN JSON(c, 400, ErrorBody(r.err))
         ELSE JSON([c EXCEPT !.orders = r.orders], 201, r.resp[1])

HandlerGetOrder(c, req) ==
    LET parsed == UUIDParse(req.param) IN
    IF parsed.err # "" THEN JSON(c, 400, ErrorBody("Invalid order ID"))
    ELSE IF c.user_id = <<>> THEN JSON(c, 401, ErrorBody("User ID not found"))
    ELSE LET r == OrderServiceGetOrder(c.users, c.orders, parsed.id, c.user_id[1]) IN
         IF r.err # "" THEN JSON(c, 404, ErrorBody(r.err))
         ELSE JSON(c, 200, r.order[1])

HandlerGetUserOrders(c, in) ==
    IF c.user_id = <<>> THEN JSON(c, 401, ErrorBody("User ID not found"))
    ELSE LET r == OrderServiceGetUserOrders(c.orders, c.user_id[1], in.findErr) IN
         IF r.err # "" THEN JSON(c, 500, ErrorBody(r.err))
         ELSE JSON(c, 200, r.orders)

HandlerAdminUsers(c) == JSON(c, 200, [message |-> "Admin endpoint - list users"])

HandlerAnalystReports(c) == JSON(c, 200, [message |-> "Analyst endpoint - view reports"])

\* The handler of a test engine: it answers 200.
HandlerStub(c) == [c EXCEPT !.status = 200]

\* gin answers a request that matches no route with 404.
HandlerNoRoute(c) == [c EXCEPT !.status = 404]

----------------------------------------------------------------------------
(* interfaces/http: the router *)

H(name) == [h |-> name]
Require(role) == [h |-> "RequireRole", role |-> role]

GlobalMiddleware == <<H("NewRelic"), H("CORS"), H("Logger"), H("RateLimit"), H("Recovery")>>

OrderHandlers == {"CreateOrder", "GetUserOrders", "GetOrder"}
ProtectedHandlers == OrderHandlers \cup {"AdminUsers", "AnalystReports"}

\* Mutant: the order routes are registered on the router, not on the group
\* that uses Auth.
Chain_OrdersOnRouter(method, path) ==
    LET api == GlobalMiddleware \o <<H("Auth")>> IN
    CASE method = "GET" /\ path = "/swagger/*any" -> GlobalMiddleware \o <<H("Swagger")>>
      [] method = "GET" /\ path = "/health" -> GlobalMiddleware \o <<H("Health")>>
      [] method = "POST" /\ path = "/auth/login" -> GlobalMiddleware \o <<H("Login")>>
      [] method = "POST" /\ path = "/auth/register" -> GlobalMiddleware \o <<H("Register")>>
      [] method = "POST" /\ path = "/auth/refresh" -> GlobalMiddleware \o <<H("RefreshToken")>>
      [] method = "POST" /\ path = "/api/v1/orders" -> GlobalMiddleware \o <<H("CreateOrder")>>
      [] method = "GET" /\ path = "/api/v1/orders" -> GlobalMiddleware \o <<H("GetUserOrders")>>
      [] method = "GET" /\ path = "/api/v1/orders/:id" -> GlobalMiddleware \o <<H("GetOrder")>>
      [] method = "GET" /\ path = "/api/v1/admin/users" ->
             api \o <<Require(RoleAdmin), H("AdminUsers")>>
      [] method = "GET" /\ path = "/api/v1/analyst/reports" ->
             api \o <<Require(RoleAnalyst), H("AnalystReports")>>
      [] OTHER -> GlobalMiddleware \o <<H("NoRoute")>>

\* Router.Setup: the handlers chain of a request, the global middleware
\* first, then the middleware of the route's groups, then its handler.
Chain(method, path) ==
    LET api == GlobalMiddleware \o <<H("Auth")>> IN
    CASE method = "GET" /\ path = "/swagger/*any" -> GlobalMiddleware \o <<H("Swagger")>>
      [] method = "GET" /\ path = "/health" -> GlobalMiddleware \o <<H("Health")>>
      [] method = "POST" /\ path = "/auth/login" -> GlobalMiddleware \o <<H("Login")>>
      [] method = "POST" /\ path = "/auth/register" -> GlobalMiddleware \o <<H("Register")>>
      [] method = "POST" /\ path = "/auth/refresh" -> GlobalMiddleware \o <<H("RefreshToken")>>
      [] method = "POST" /\ path = "/api/v1/orders" -> api \o <<H("CreateOrder")>>
      [] method = "GET" /\ path = "/api/v1/orders" -> api \o <<H("GetUserOrders")>>
      [] method = "GET" /\ path = "/api/v1/orders/:id" -> api \o <<H("GetOrder")>>
      [] method = "GET" /\ path = "/api/v1/admin/users" ->
             api \o <<Require(RoleAdmin), H("AdminUsers")>>
      [] method = "GET" /\ path = "/api/v1/analyst/reports" ->
             api \o <<Require(RoleAnalyst), H("AnalystReports")>>
      [] OTHER -> GlobalMiddleware \o <<H("NoRoute")>>

\* One handler of a chain applied to the context.
Apply(hd, c, req, t, in) ==
    LET c1 == [c EXCEPT !.ran = Append(@, hd)] IN
    CASE hd.h = "CORS" -> CORS(c1, req)
      [] hd.h = "RateLimit" -> RateLimit(c1, t)
      [] hd.h = "Auth" -> Auth(c1, req, t)
      [] hd.h = "RequireRole" -> RequireRole(c1, hd.role)
      [] hd.h = "Health" -> HandlerHealth(c1)
      [] hd.h = "Login" -> HandlerLogin(c1, req, t)
      [] hd.h = "Register" -> HandlerRegister(c1, req, t, in)
      [] hd.h = "RefreshToken" -> HandlerRefreshToken(c1, req, t)
      [] hd.h = "CreateOrder" -> HandlerCreateOrder(c1, req, t, in)
      [] hd.h = "GetUserOrders" -> HandlerGetUserOrders(c1, in)
      [] hd.h = "GetOrder" -> HandlerGetOrder(c1, req)
      [] hd.h = "AdminUsers" -> HandlerAdminUsers(c1)
      [] hd.h = "AnalystReports" -> HandlerAnalystReports(c1)
      [] hd.h = "Stub" -> HandlerStub(c1)
      [] hd.h = "NoRoute" -> HandlerNoRoute(c1)
      [] OTHER -> c1

\* gin.Context.Next: the handlers of the chain run in order until one aborts.
RECURSIVE RunChain(_, _, _, _, _, _)
RunChain(chain, i, c, req, t, in) ==
    IF i > Len(chain) \/ c.aborted THEN c
    ELSE RunChain(chain, i + 1, Apply(chain[i], c, req, t, in), req, t, in)

----------------------------------------------------------------------------
(* State machine: the stores, the clock and the auth use cases *)

\* The goroutines that serve requests at the same time.
Goroutines == {"g1", "g2"}

\* No request is in flight: nobody is in RateLimit or holds the limiter's
\* mutex, no request has been admitted yet, and no Register call is running.
NoFlights ==
    [pc |-> [g \in Goroutines |-> "idle"],
     read |-> [g \in Goroutines |-> NewLimiter],
     mu |-> <<>>,
     admitted |-> 0,
     register |-> [g \in Goroutines |-> <<>>]]

NoCall == [op |-> "none"]

Init ==
    /\ users = <<>>
    /\ orders = <<>>
    /\ held = <<>>
    /\ now = 0
    /\ ticks = 0
    /\ last = NoCall
    /\ agg = <<>>
    /\ limiter = NewLimiter
    /\ flights = NoFlights

\* uuid.New(): an identifier no stored row has.
NewUserID == Len(users) + 1

Login ==
    \E email \in Emails, password \in Passwords :
        LET r == AuthServiceLogin(users, email, password, now) IN
        /\ last' = [op |-> "Login", email |-> email, password |-> password,
                    resp |-> r.resp, err |-> r.err]
        /\ users' = r.users
        /\ UNCHANGED <<orders, held, now, ticks, agg, limiter, flights>>

\* Register with the emails, the passwords, the roles and the results of
\* userRepo.Save drawn from the given sets.
RegisterFrom(emails, passwords, roles, saveErrs) ==
    \E email \in emails, password \in passwords, role \in roles, saveErr \in saveErrs :
        LET r == AuthServiceRegister(users, email, password, role, NewUserID, saveErr, now) IN
        /\ last' = [op |-> "Register", email |-> email, password |-> password,
                    role |-> role, resp |-> r.resp, err |-> r.err]
        /\ users' = r.users
        /\ UNCHANGED <<orders, held, now, ticks, agg, limiter, flights>>

RegisterWith(passwords, saveErrs) == RegisterFrom(Emails, passwords, Roles, saveErrs)

Register == RegisterWith(Passwords, StoreErrors)

\* A client keeps the token pair of the response it just received.
KeepTokens ==
    /\ last.op \in {"Login", "Register", "RefreshToken"}
    /\ last.resp # <<>>
    /\ held' = <<[AccessToken |-> last.resp[1].AccessToken,
                  RefreshToken |-> last.resp[1].RefreshToken]>>
    /\ held' # held
    /\ UNCHANGED <<users, orders, now, ticks, last, agg, limiter, flights>>

\* The tokens a caller can present: the kept refresh or access token, a
\* string that is no token, or a token signed by somebody else.
PresentableTokens ==
    {held[i].RefreshToken : i \in 1..Len(held)}
        \cup {held[i].AccessToken : i \in 1..Len(held)}
        \cup {InvalidToken, GenerateRefreshToken(OtherKey, 1, 0)}

\* RefreshToken of a string drawn from the given set; with the call it is
\* kept whether the call before it was an accepted refresh of that string.
RefreshTokenOf(tokens) ==
    \E tok \in tokens :
        LET r == AuthServiceRefreshToken(users, tok, now) IN
        /\ last' = [op |-> "RefreshToken", token |-> tok, resp |-> r.resp, err |-> r.err,
                    again |-> last.op = "RefreshToken" /\ last.token = tok /\ last.err = ""]
        /\ users' = r.users
        /\ UNCHANGED <<orders, held, now, ticks, agg, limiter, flights>>

RefreshToken == RefreshTokenOf(PresentableTokens)

\* Tokens signed with the key of the service that it does not hand out: a
\* refresh token for an id that no stored user has, one whose subject is no
\* UUID and one without a subject.
CraftedTokens ==
    {GenerateRefreshToken(SecretKey, Cardinality(Emails) + 1, 0),
     SignedString([exp |-> RefreshTokenTTL, iat |-> 0, sub |-> <<"text", 0>>], SecretKey),
     SignedString([exp |-> RefreshTokenTTL, iat |-> 0], SecretKey)}

\* The stored role or active flag of a user is changed by an administrator,
\* outside the services: UserRepository.Save of a changed row.
SetRole ==
    \E i \in 1..Len(users), role \in Roles :
        /\ role # users[i].Role
        /\ users' = SaveUser(users, [users[i] EXCEPT !.Role = role])
        /\ last' = [op |-> "SetRole", id |-> users[i].ID, role |-> role]
        /\ UNCHANGED <<orders, held, now, ticks, agg, limiter, flights>>

SetActive ==
    \E i \in 1..Len(users) :
        /\ users' = SaveUser(users, [users[i] EXCEPT !.IsActive = ~users[i].IsActive])
        /\ last' = [op |-> "SetActive", id |-> users[i].ID]
        /\ UNCHANGED <<orders, held, now, ticks, agg, limiter, flights>>

\* Time passes: by one token lifetime or the other.
TickSteps == {AccessTokenTTL, RefreshTokenTTL}

Tick ==
    \E d \in TickSteps :
        /\ ticks < MaxTicks
        /\ now' = now + d
        /\ ticks' = ticks + 1
        /\ last' = [op |-> "Tick", d |-> d]
        /\ UNCHANGED <<users, orders, held, agg, limiter, flights>>

----------------------------------------------------------------------------
(* State machine: the order use cases *)

\* Identifiers a caller can name: those of stored rows and one of no row.
UserIDs == 1..(Cardinality(Emails) + 1)
OrderIDs == 1..(MaxOrders + 1)

ItemIDs == validItems \cup {"bogus-item"}
Quantities == {1}

NewOrderID == Len(orders) + 1

\* CreateOrder with the quantities of the requests drawn from the given set.
CreateOrderWith(quantities) ==
    \E userID \in UserIDs, itemID \in ItemIDs, quantity \in quantities,
       saveErr \in StoreErrors :
        LET r == OrderServiceCreateOrder(users, orders, userID, itemID, quantity,
                                         NewOrderID, saveErr, now) IN
        /\ Len(r.orders) <= MaxOrders
        /\ orders' = r.orders
        /\ last' = [op |-> "CreateOrder", userID |-> userID, itemID |-> itemID,
                    quantity |-> quantity, resp |-> r.resp, err |-> r.err,
                    calls |-> r.calls]
        /\ UNCHANGED <<users, held, now, ticks, agg, limiter, flights>>

CreateOrder == CreateOrderWith(Quantities)

GetOrder ==
    \E orderID \in OrderIDs, userID \in UserIDs :
        LET r == OrderServiceGetOrder(users, orders, orderID, userID) IN
        /\ last' = [op |-> "GetOrder", orderID |-> orderID, userID |-> userID,
                    order |-> r.order, err |-> r.err]
        /\ UNCHANGED <<users, orders, held, now, ticks, agg, limiter, flights>>

GetUserOrders ==
    \E userID \in UserIDs, findErr \in {"", "db error"} :
        LET r == OrderServiceGetUserOrders(orders, userID, findErr) IN
        /\ last' = [op |-> "GetUserOrders", userID |-> userID,
                    orders |-> r.orders, err |-> r.err]
        /\ UNCHANGED <<users, orders, held, now, ticks, agg, limiter, flights>>

----------------------------------------------------------------------------
(* State machine: an order aggregate in memory *)

NewOrderCall ==
    \E userID \in 1..Cardinality(Emails), itemID \in validItems, quantity \in Quantities :
        LET id == IF agg = <<>> THEN 1 ELSE agg[1].ID + 1 IN
        /\ id <= MaxOrders + 1
        /\ agg' = <<NewOrder(id, userID, itemID, quantity, now)>>
        /\ last' = [op |-> "NewOrder", id |-> id]
        /\ UNCHANGED <<users, orders, held, now, ticks, limiter, flights>>

ConfirmCall ==
    /\ agg # <<>>
    /\ agg' = <<Confirm(agg[1], now)>>
    /\ last' = [op |-> "Confirm", id |-> agg[1].ID]
    /\ UNCHANGED <<users, orders, held, now, ticks, limiter, flights>>

CompleteCall ==
    /\ agg # <<>>
    /\ agg' = <<Complete(agg[1], now)>>
    /\ last' = [op |-> "Complete", id |-> agg[1].ID]
    /\ UNCHANGED <<users, orders, held, now, ticks, limiter, flights>>

CancelCall ==
    /\ agg # <<>>
    /\ agg' = <<Cancel(agg[1], now)>>
    /\ last' = [op |-> "Cancel", id |-> agg[1].ID]
    /\ UNCHANGED <<users, orders, held, now, ticks, limiter, flights>>

----------------------------------------------------------------------------
(* State machine: the middleware on a test engine *)

Request(method, path, param, header, body) ==
    [method |-> method, path |-> path, param |-> param, header |-> header, body |-> body]

\* What a request left on its context.
Response(c) ==
    [status |-> c.status, body |-> c.body, aborted |-> c.aborted,
     user_id |-> c.user_id, user_role |-> c.user_role,
     ran |-> c.ran, validated |-> c.validated]

\* What the store and uuid.New() hand to the handlers during a request.
Inputs(saveErr, findErr) ==
    [userID |-> NewUserID, orderID |-> Len(orders) + 1,
     saveErr |-> saveErr, findErr |-> findErr]

\* The tokens that the service issues at time 0 to a user of each role, a
\* token signed with another key and a string that is no token.
IssuedTokens ==
    {GenerateAccessToken(SecretKey, 1, role, 0) : role \in Roles}
        \cup {GenerateRefreshToken(SecretKey, 1, 0)}

TestTokens ==
    IssuedTokens \cup {GenerateAccessToken(OtherKey, 1, RoleAdmin, 0), InvalidToken}

\* Authorization headers: none, a bare token, "Bearer " and a token, and
\* "Bearer " and nothing.
TestHeaders ==
    {<<>>, <<BearerPrefix>>}
        \cup {<<Tok(t)>> : t \in TestTokens}
        \cup {<<BearerPrefix, Tok(t)>> : t \in TestTokens}

\* Auth in front of a handler, as on the engine of TestAuth.
TestAuth ==
    \E header \in TestHeaders :
        LET req == Request("GET", "/test", <<>>, header, <<>>)
            c == RunChain(<<H("Auth"), H("Stub")>>, 1,
                          NewContext(users, orders, limiter), req, now, Inputs("", ""))
        IN
        /\ last' = [op |-> "Auth", req |-> req, c |-> Response(c)]
        /\ UNCHANGED <<users, orders, held, now, ticks, agg, limiter, flights>>

\* RequireRole in front of a handler, on a context with or without a role,
\* as in TestRequireRole.
AttachedRoles == {<<>>} \cup {<<role>> : role \in Roles \cup {""}}

TestRequireRole ==
    \E attached \in AttachedRoles, requiredRole \in Roles :
        LET req == Request("GET", "/test", <<>>, <<>>, <<>>)
            c0 == [NewContext(users, orders, limiter) EXCEPT !.user_role = attached]
            c == RunChain(<<Require(requiredRole), H("Stub")>>, 1, c0, req, now,
                          Inputs("", ""))
        IN
        /\ last' = [op |-> "RequireRole", attached |-> attached,
                    requiredRole |-> requiredRole, c |-> Response(c)]
        /\ UNCHANGED <<users, orders, held, now, ticks, agg, limiter, flights>>

----------------------------------------------------------------------------
(* State machine: the HTTP server *)

AccountEmail == "a@example.com"
AccountPassword == "password123"

RegisterBodies ==
    {[email |-> AccountEmail, password |-> AccountPassword, role |-> role] :
        role \in {RoleViewer, RoleAnalyst, RoleAdmin}}

LoginBodies == {[email |-> AccountEmail, password |-> AccountPassword]}

\* Bearer tokens a client can send: the kept ones, a string that is no
\* token and an admin token signed with another key.
BearerTokens ==
    {held[i].AccessToken : i \in 1..Len(held)}
        \cup {held[i].RefreshToken : i \in 1..Len(held)}
        \cup {InvalidToken, GenerateAccessToken(OtherKey, 1, RoleAdmin, 0)}

HttpHeaders ==
    {<<>>}
        \cup {<<Tok(held[i].AccessToken)>> : i \in 1..Len(held)}
        \cup {<<BearerPrefix, Tok(t)>> : t \in BearerTokens}

CreateOrderBodies ==
    {[item_id |-> "item-1", quantity |-> 1], [item_id |-> "bogus-item", quantity |-> 1]}

OrderParams == {UUIDString(id) : id \in 1..MaxOrders}

\* The registered routes under /api/v1.
ApiRoutes ==
    {<<"POST", "/api/v1/orders">>, <<"GET", "/api/v1/orders">>,
     <<"GET", "/api/v1/orders/:id">>, <<"GET", "/api/v1/admin/users">>,
     <<"GET", "/api/v1/analyst/reports">>}

ApiRequests ==
    {Request("POST", "/api/v1/orders", <<>>, h, b) : h \in HttpHeaders, b \in CreateOrderBodies}
        \cup {Request("GET", "/api/v1/orders/:id", p, h, <<>>) : p \in OrderParams, h \in HttpHeaders}
        \cup {Request("GET", path, <<>>, h, <<>>) :
                path \in {"/api/v1/orders", "/api/v1/admin/users", "/api/v1/analyst/reports"},
                h \in HttpHeaders}

HttpRequests ==
    {Request("GET", "/health", <<>>, <<>>, <<>>),
     Request("OPTIONS", "/api/v1/orders", <<>>, <<>>, <<>>),
     Request("GET", "/nowhere", <<>>, <<>>, <<>>)}
        \cup {Request("POST", "/auth/register", <<>>, <<>>, b) : b \in RegisterBodies}
        \cup {Request("POST", "/auth/login", <<>>, <<>>, b) : b \in LoginBodies}
        \cup {Request("POST", "/auth/refresh", <<>>, <<>>, [refresh_token |-> t]) :
                t \in {held[i].RefreshToken : i \in 1..Len(held)} \cup {InvalidToken}}
        \cup ApiRequests

\* gin.Engine.ServeHTTP: the chain of the request's route runs on a new
\* context; what the handlers saved is in the stores afterwards.
ServeHTTPWith(saveErrs, findErrs) ==
    \E req \in HttpRequests, saveErr \in saveErrs, findErr \in findErrs :
        LET c == RunChain(Chain(req.method, req.path), 1,
                          NewContext(users, orders, limiter), req, now,
                          Inputs(saveErr, findErr))
        IN
        /\ Len(c.orders) <= MaxOrders
        /\ users' = c.users
        /\ orders' = c.orders
        /\ limiter' = c.limiter
        /\ last' = [op |-> "ServeHTTP", req |-> req, c |-> Response(c)]
        /\ UNCHANGED <<held, now, ticks, agg, flights>>

ServeHTTP == ServeHTTPWith({""}, {""})

\* A client keeps the token pair of the auth response it just received.
KeepResponseTokens ==
    /\ last.op = "ServeHTTP"
    /\ last.req.path \in {"/auth/register", "/auth/login", "/auth/refresh"}
    /\ last.c.status \in {200, 201}
    /\ held' = <<[AccessToken |-> last.c.body.AccessToken,
                  RefreshToken |-> last.c.body.RefreshToken]>>
    /\ held' # held
    /\ UNCHANGED <<users, orders, now, ticks, last, agg, limiter, flights>>

----------------------------------------------------------------------------
(* State machine: requests against the rate limiter *)

\* Routes of different groups, asked for without credentials.
LimitedRoutes == {<<"GET", "/health">>, <<"GET", "/api/v1/orders">>}

\* The requests that the limiter admitted at the current minute, before
\* the next one arrives.
AdmittedThisMinute ==
    IF last.op = "Limited" /\ last.at = now THEN last.admitted ELSE 0

\* A request through the router; with it the number of requests admitted
\* in its minute is kept.
LimitedRequest ==
    \E route \in LimitedRoutes :
        LET req == Request(route[1], route[2], <<>>, <<>>, <<>>)
            c == RunChain(Chain(req.method, req.path), 1,
                          NewContext(users, orders, limiter), req, now, Inputs("", ""))
        IN
        /\ limiter' = c.limiter
        /\ last' = [op |-> "Limited", req |-> req, c |-> Response(c), at |-> now,
                    admitted |-> AdmittedThisMinute + (IF c.status = 429 THEN 0 ELSE 1)]
        /\ UNCHANGED <<users, orders, held, now, ticks, agg, flights>>

\* Time passes: by the time that refills one token.
MinutePasses ==
    /\ ticks < MaxTicks
    /\ now' = now + RefillMinutes
    /\ ticks' = ticks + 1
    /\ last' = [op |-> "Tick", d |-> RefillMinutes]
    /\ UNCHANGED <<users, orders, held, agg, limiter, flights>>

----------------------------------------------------------------------------
(* State machine: concurrent requests in the RateLimit middleware *)

\* A request arrives and its goroutine enters the RateLimit handler.
Arrive(g) ==
    /\ flights.pc[g] = "idle"
    /\ flights' = [flights EXCEPT !.pc[g] = "RateLimit"]
    /\ UNCHANGED <<users, orders, held, now, ticks, last, agg, limiter>>

\* Mutant: the mutex excludes nobody.
MutexFree_Always == TRUE

\* The limiter's mutex is held by no goroutine.
MutexFree == flights.mu = <<>>

\* limiter.Allow, first half: the goroutine takes the limiter's mutex and
\* reads the bucket.
AllowLock(g) ==
    /\ flights.pc[g] = "RateLimit"
    /\ MutexFree
    /\ flights' = [flights EXCEPT !.pc[g] = "Allow", !.mu = <<g>>, !.read[g] = limiter]
    /\ UNCHANGED <<users, orders, held, now, ticks, last, agg, limiter>>

\* limiter.Allow, second half: the goroutine decides on what it read, writes
\* the bucket back and releases the mutex.
AllowUnlock(g) ==
    /\ flights.pc[g] = "Allow"
    /\ LET a == LimiterAllow(flights.read[g], now) IN
       /\ limiter' = a.lim
       /\ flights' = [flights EXCEPT
                         !.pc[g] = IF a.ok THEN "admitted" ELSE "rejected",
                         !.mu = <<>>,
                         !.read[g] = NewLimiter,
                         !.admitted = @ + (IF a.ok THEN 1 ELSE 0)]
    /\ UNCHANGED <<users, orders, held, now, ticks, last, agg>>

\* The rest of the RateLimit handler: 429 and abort, or the next handler.
Respond(g) ==
    /\ flights.pc[g] \in {"admitted", "rejected"}
    /\ LET c0 == NewContext(users, orders, limiter)
           c == IF flights.pc[g] = "rejected"
                THEN Abort(JSON(c0, 429, ErrorBody("Rate limit exceeded")))
                ELSE HandlerStub(c0)
       IN last' = [op |-> "Respond", g |-> g, c |-> Response(c)]
    /\ flights' = [flights EXCEPT !.pc[g] = "idle"]
    /\ UNCHANGED <<users, orders, held, now, ticks, agg, limiter>>

----------------------------------------------------------------------------
(* State machine: Register calls that run at the same time *)

\* AuthService.Register up to its lookup: what FindByEmail returned is kept
\* by the call; an error of the lookup is dropped and reads as no user.
RegisterLookup(g) ==
    \E email \in Emails, role \in {RoleViewer, RoleAdmin}, findErr \in {"", "db error"} :
        /\ flights.register[g] = <<>>
        /\ flights' = [flights EXCEPT !.register[g] =
               <<[email |-> email, password |-> AccountPassword, role |-> role,
                  existingUser |-> IF findErr # "" THEN <<>> ELSE FindByEmail(users, email)]>>]
        /\ UNCHANGED <<users, orders, held, now, ticks, last, agg, limiter>>

\* AuthService.Register from the lookup on: the call fails if the lookup
\* found a user; otherwise the new user is saved, which the store refuses
\* when the email has been taken meanwhile.
RegisterSave(g) ==
    /\ flights.register[g] # <<>>
    /\ LET call == flights.register[g][1]
           user == NewUser(NewUserID, call.email, call.password, call.role)
           r == IF call.existingUser # <<>> THEN AuthFail("email already exists", users)
                ELSE IF UniqueViolation(users, user) THEN AuthFail(ErrDuplicateKey, users)
                ELSE IssueTokens(user, now, SaveUser(users, user))
       IN
       /\ users' = r.users
       /\ last' = [op |-> "RegisterSave", g |-> g, email |-> call.email,
                   role |-> call.role, resp |-> r.resp, err |-> r.err,
                   stored |-> FindByEmail(users, call.email) # <<>>,
                   saved |-> r.users # users]
    /\ flights' = [flights EXCEPT !.register[g] = <<>>]
    /\ UNCHANGED <<orders, held, now, ticks, agg, limiter>>

----------------------------------------------------------------------------
(* State machine: the jwt service *)

\* The secrets of two services.
SecretKeys == {SecretKey, OtherKey}

TokenKinds == {"access", "refresh"}

\* The user ids a token is issued for: the nil UUID and another one.
TokenUserIDs == {NilUUID, 1}

\* NewService(key).GenerateAccessToken or GenerateRefreshToken: the caller
\* holds the token and knows what it was issued for.
IssueToken ==
    \E key \in SecretKeys, kind \in TokenKinds, id \in TokenUserIDs,
       role \in {RoleViewer, RoleAdmin} :
        /\ kind = "refresh" => role = RoleViewer
        /\ held' = <<[kind |-> kind, key |-> key, id |-> id, role |-> role, at |-> now,
                      token |-> IF kind = "access"
                                THEN GenerateAccessToken(key, id, role, now)
                                ELSE GenerateRefreshToken(key, id, now)]>>
        /\ last' = [op |-> "IssueToken"]
        /\ UNCHANGED <<users, orders, now, ticks, agg, limiter, flights>>

\* NewService(key).ValidateAccessToken or ValidateRefreshToken of the held
\* token.
VerifyToken ==
    \E key \in SecretKeys, as \in TokenKinds :
        /\ held # <<>>
        /\ last' = [op |-> "VerifyToken", key |-> key, as |-> as, issued |-> held[1],
                    result |-> IF as = "access"
                               THEN ValidateAccessToken(key, held[1].token, now)
                               ELSE ValidateRefreshToken(key, held[1].token, now)]
        /\ UNCHANGED <<users, orders, held, now, ticks, agg, limiter, flights>>

----------------------------------------------------------------------------
(* State machine: permission checks on stored users *)

\* User.HasPermission of a stored user for a required role.
HasPermissionCall ==
    \E i \in 1..Len(users), requiredRole \in Roles :
        /\ last' = [op |-> "HasPermission", user |-> users[i],
                    requiredRole |-> requiredRole,
                    result |-> HasPermission(users[i], requiredRole)]
        /\ UNCHANGED <<users, orders, held, now, ticks, agg, limiter, flights>>

----------------------------------------------------------------------------
(* State machine: registration requests *)

\* The bodies of registration requests: with a password too short for the
\* binding, with roles outside the three and with no role.
RegisterRequestBodies ==
    {[email |-> email, password |-> password, role |-> role] :
        email \in Emails, password \in {AccountPassword, "short"}, role \in Roles \cup {""}}

\* Handler.Register on the context of a POST /auth/register, with the bodies
\* and the results of userRepo.Save drawn from the given sets.
PostRegisterWith(bodies, saveErrs) ==
    \E body \in bodies, saveErr \in saveErrs :
        LET req == Request("POST", "/auth/register", <<>>, <<>>, body)
            c == HandlerRegister(NewContext(users, orders, limiter), req, now,
                                 Inputs(saveErr, ""))
        IN
        /\ users' = c.users
        /\ last' = [op |-> "PostRegister", req |-> req, c |-> Response(c)]
        /\ UNCHANGED <<orders, held, now, ticks, agg, limiter, flights>>

PostRegister == PostRegisterWith(RegisterRequestBodies, {""})

----------------------------------------------------------------------------
(* State machine: order creation, by a service call and by a request *)

\* Quantities of a CreateOrderRequest built by a caller of the service; the
\* struct's binding tags are read by gin only.
RequestQuantities == {1, 2, -1}

\* The bodies of POST /api/v1/orders: with an item outside the catalog, with
\* no item, and with quantities the binding refuses.
PostOrderBodies ==
    {[item_id |-> itemID, quantity |-> quantity] :
        itemID \in ItemIDs \cup {""}, quantity \in {1, 0, -1}}

\* Handler.CreateOrder on the context of a POST /api/v1/orders to which Auth
\* attached a user id.
PostCreateOrder ==
    \E userID \in UserIDs, body \in PostOrderBodies, saveErr \in StoreErrors :
        LET req == Request("POST", "/api/v1/orders", <<>>, <<>>, body)
            c0 == [NewContext(users, orders, limiter) EXCEPT !.user_id = <<userID>>]
            c == HandlerCreateOrder(c0, req, now, Inputs(saveErr, ""))
        IN
        /\ Len(c.orders) <= MaxOrders
        /\ orders' = c.orders
        /\ last' = [op |-> "PostCreateOrder", req |-> req, c |-> Response(c)]
        /\ UNCHANGED <<users, held, now, ticks, agg, limiter, flights>>

----------------------------------------------------------------------------
(* State machine: requests against a store that fails *)

\* What a failing store call returns to the services.
StoreFailures == {"save failed", "db error"}

\* Handler.GetUserOrders on the context of a GET /api/v1/orders to which
\* Auth attached a user id.
GetOrdersRequest ==
    \E userID \in UserIDs, findErr \in {"", "db error"} :
        LET req == Request("GET", "/api/v1/orders", <<>>, <<>>, <<>>)
            c0 == [NewContext(users, orders, limiter) EXCEPT !.user_id = <<userID>>]
            c == HandlerGetUserOrders(c0, Inputs("", findErr))
        IN
        /\ last' = [op |-> "GetOrdersRequest", req |-> req, c |-> Response(c)]
        /\ UNCHANGED <<users, orders, held, now, ticks, agg, limiter, flights>>

----------------------------------------------------------------------------
(* State machine: requests to the routes that require a role *)

\* The routes behind RequireRole, with the role each requires.
RoleRoutes ==
    {[path |-> "/api/v1/admin/users", role |-> RoleAdmin, handler |-> "AdminUsers"],
     [path |-> "/api/v1/analyst/reports", role |-> RoleAnalyst, handler |-> "AnalystReports"]}

\* The handlers of a route behind the global middleware: the middleware of
\* its groups and its handler.
GroupChain(method, path) ==
    SubSeq(Chain(method, path), Len(GlobalMiddleware) + 1, Len(Chain(method, path)))

\* A request with the kept access token to a route that requires a role,
\* once the global middleware has let it pass.
RoleRequest ==
    \E route \in RoleRoutes :
        /\ held # <<>>
        /\ LET req == Request("GET", route.path, <<>>,
                              <<BearerPrefix, Tok(held[1].AccessToken)>>, <<>>)
               c == RunChain(GroupChain(req.method, req.path), 1,
                             NewContext(users, orders, limiter), req, now, Inputs("", ""))
           IN last' = [op |-> "RoleRequest", route |-> route, token |-> held[1].AccessToken,
                       c |-> Response(c)]
        /\ UNCHANGED <<users, orders, held, now, ticks, agg, limiter, flights>>

----------------------------------------------------------------------------
(* State machine: requests for one order *)

\* Handler.GetOrder on the context of a GET /api/v1/orders/:id to which
\* Auth attached a user id.
GetOrderRequest ==
    \E userID \in UserIDs, orderID \in OrderIDs :
        LET req == Request("GET", "/api/v1/orders/:id", UUIDString(orderID), <<>>, <<>>)
            c0 == [NewContext(users, orders, limiter) EXCEPT !.user_id = <<userID>>]
            c == HandlerGetOrder(c0, req)
        IN
        /\ last' = [op |-> "GetOrderRequest", req |-> req, c |-> Response(c)]
        /\ UNCHANGED <<users, orders, held, now, ticks, agg, limiter, flights>>

----------------------------------------------------------------------------
(* Specifications *)

\* Login and registration against a store whose rows an administrator edits.
NextLogin == Login \/ Register \/ SetRole \/ SetActive

SpecLogin == Init /\ [][NextLogin]_vars

\* Token refresh: registration, kept tokens, role changes and the clock.
NextRefresh ==
    \/ RegisterWith({"password123"}, {""})
    \/ KeepTokens
    \/ RefreshToken
    \/ SetRole
    \/ Tick

SpecRefresh == Init /\ [][NextRefresh]_vars

\* The order use cases over registered users.
NextOrder ==
    \/ RegisterWith({"password123"}, {""})
    \/ SetRole
    \/ CreateOrder
    \/ GetOrder
    \/ GetUserOrders

SpecOrder == Init /\ [][NextOrder]_vars

\* The order workflow: one aggregate, its transitions and the clock.
NextWorkflow == NewOrderCall \/ ConfirmCall \/ CompleteCall \/ CancelCall \/ Tick

SpecWorkflow == Init /\ [][NextWorkflow]_vars

\* The middleware on a test engine, with tokens that expire as time passes.
NextMiddleware == TestAuth \/ TestRequireRole \/ Tick

SpecMiddleware == Init /\ [][NextMiddleware]_vars

\* The HTTP server: requests through the router, by clients who keep tokens.
NextHttp == ServeHTTP \/ KeepResponseTokens

SpecHttp == Init /\ [][NextHttp]_vars

----------------------------------------------------------------------------
\* The rate limiter under traffic, minute after minute.
NextLimiter == LimitedRequest \/ MinutePasses

SpecLimiter == Init /\ [][NextLimiter]_vars

----------------------------------------------------------------------------
\* Requests served by goroutines that pass the rate limiter at the same time.
NextConcurrentLimiter ==
    \/ \E g \in Goroutines : Arrive(g)
    \/ \E g \in Goroutines : AllowLock(g)
    \/ \E g \in Goroutines : AllowUnlock(g)
    \/ \E g \in Goroutines : Respond(g)
    \/ MinutePasses

SpecConcurrentLimiter == Init /\ [][NextConcurrentLimiter]_vars

----------------------------------------------------------------------------
\* Register calls of several goroutines, interleaved at their store calls.
NextConcurrentRegister ==
    \/ \E g \in Goroutines : RegisterLookup(g)
    \/ \E g \in Goroutines : RegisterSave(g)

SpecConcurrentRegister == Init /\ [][NextConcurrentRegister]_vars

----------------------------------------------------------------------------
\* Tokens of the jwt service, issued and verified as time passes.
NextTokens == IssueToken \/ VerifyToken \/ Tick \/ MinutePasses

SpecTokens == Init /\ [][NextTokens]_vars

----------------------------------------------------------------------------
\* Permission checks on users whose roles change.
NextPermission == RegisterWith({"password123"}, {""}) \/ SetRole \/ HasPermissionCall

SpecPermission == Init /\ [][NextPermission]_vars

----------------------------------------------------------------------------
\* Registration requests, one after the other.
NextRegisterRequests == PostRegister

SpecRegisterRequests == Init /\ [][NextRegisterRequests]_vars

----------------------------------------------------------------------------
\* Orders created for one account by callers of the service and by requests.
NextCreateOrders ==
    \/ RegisterFrom({AccountEmail}, {AccountPassword}, {RoleViewer, "guest"}, {""})
    \/ CreateOrderWith(RequestQuantities)
    \/ PostCreateOrder

SpecCreateOrders == Init /\ [][NextCreateOrders]_vars

----------------------------------------------------------------------------
\* Requests whose store calls can fail.
NextStoreFailures ==
    \/ PostRegisterWith(RegisterBodies, StoreErrors)
    \/ PostCreateOrder
    \/ GetOrdersRequest

SpecStoreFailures == Init /\ [][NextStoreFailures]_vars

----------------------------------------------------------------------------
\* The sessions of one account: registration, login, kept tokens, refreshes
\* of any token, a changing active flag and the clock.
NextSessions ==
    \/ RegisterFrom({AccountEmail}, {AccountPassword}, {RoleViewer, RoleAdmin}, {""})
    \/ Login
    \/ KeepTokens
    \/ RefreshTokenOf(PresentableTokens \cup CraftedTokens)
    \/ SetActive
    \/ Tick

SpecSessions == Init /\ [][NextSessions]_vars

----------------------------------------------------------------------------
\* Requests with an access token whose user's stored role changes.
NextIssuedRoles ==
    \/ RegisterFrom({AccountEmail}, {AccountPassword}, {RoleViewer, RoleAdmin}, {""})
    \/ KeepTokens
    \/ SetRole
    \/ RoleRequest
    \/ Tick

SpecIssuedRoles == Init /\ [][NextIssuedRoles]_vars

----------------------------------------------------------------------------
\* Requests for the orders of viewers and analysts.
NextOrderRequests ==
    \/ RegisterFrom(Emails, {AccountPassword}, {RoleViewer, RoleAnalyst}, {""})
    \/ CreateOrder
    \/ GetOrderRequest

SpecOrderRequests == Init /\ [][NextOrderRequests]_vars

----------------------------------------------------------------------------
\* The use cases of both services, against stores whose Save can fail.
NextServices ==
    \/ RegisterFrom(Emails, {AccountPassword}, {RoleViewer}, StoreErrors)
    \/ Login
    \/ KeepTokens
    \/ RefreshToken
    \/ CreateOrder
    \/ GetOrder
    \/ GetUserOrders

SpecServices == Init /\ [][NextServices]_vars

----------------------------------------------------------------------------
(* Properties: login and registration (SpecLogin) *)

\* The stored row u is the row that a registration with this email and
\* password created, unchanged but for its role.
RegisteredAs(u, email, password) ==
    \E role \in Roles : u = NewUser(u.ID, email, password, role)

\* The same, whatever the active flag of the row has become.
CreatedWith(u, email, password) ==
    RegisteredAs([u EXCEPT !.IsActive = TRUE], email, password)

\* C1: after a successful register(email, password, role), and whatever else
\* happened that left that user as registered, login with the same email and
\* password succeeds and returns an access token and a refresh token that
\* verify and carry that user's id.
C1_RegisterThenLogin ==
    last.op = "Login" =>
        \A i \in 1..Len(users) :
            RegisteredAs(users[i], last.email, last.password) =>
                /\ last.err = ""
                /\ last.resp # <<>>
                /\ last.resp[1].User = users[i]
                /\ LET a == ValidateAccessToken(SecretKey, last.resp[1].AccessToken, now) IN
                   a.err = "" /\ a.claims[1].UserID = users[i].ID
                /\ ValidateRefreshToken(SecretKey, last.resp[1].RefreshToken, now)
                       = [id |-> users[i].ID, err |-> ""]

\* A login of the first registered user succeeded after a second user was
\* registered.
C1_Witness ==
    /\ last.op = "Login"
    /\ last.err = ""
    /\ Len(users) = 2
    /\ RegisteredAs(users[1], last.email, last.password)

UsersWithout(us, email) == SelectSeq(us, LAMBDA u : u.Email # email)

LoginOutcome(us, email, password, t) ==
    LET r == AuthServiceLogin(us, email, password, t) IN [resp |-> r.resp, err |-> r.err]

\* C2: a login with a password that is not the correct one for the email
\* fails with "invalid credentials", and its outcome is the outcome of the
\* same login against a store without a user of that email.
C2_SameFailureWhetherStored ==
    (/\ last.op = "Login"
     /\ \A i \in 1..Len(users) :
            users[i].Email = last.email => ~CreatedWith(users[i], last.email, last.password))
    => /\ last.err = "invalid credentials"
       /\ [resp |-> last.resp, err |-> last.err]
              = LoginOutcome(UsersWithout(users, last.email), last.email, last.password, now)

\* C8: login checks existence, then the active flag, then the password: an
\* unknown email fails with "invalid credentials", a stored inactive user
\* fails with "account is inactive" whatever the password, a stored active
\* user with a wrong password fails with "invalid credentials"; a failed
\* login returns no response, hence no token.
C8_InactiveLoginFails ==
    last.op = "Login" =>
        LET found == FindByEmail(users, last.email) IN
        /\ found = <<>> => last.err = "invalid credentials"
        /\ (found # <<>> /\ ~found[1].IsActive) => last.err = "account is inactive"
        /\ (found # <<>> /\ found[1].IsActive
                /\ \E p \in Passwords \ {last.password} : CreatedWith(found[1], last.email, p))
            => last.err = "invalid credentials"
        /\ last.err # "" => last.resp = <<>>

\* A login of an inactive user with the password of its registration failed
\* with "account is inactive".
C8_Witness ==
    /\ last.op = "Login"
    /\ last.err = "account is inactive"
    /\ \E i \in 1..Len(users) :
           /\ ~users[i].IsActive
           /\ CreatedWith(users[i], last.email, last.password)

----------------------------------------------------------------------------
(* Properties: token refresh (SpecRefresh) *)

\* C4: the access token that a successful refreshToken returns is for the
\* user of the presented refresh token and carries the role stored for that
\* user at the time of the refresh.
C4_RefreshUsesStoredRole ==
    (last.op = "RefreshToken" /\ last.err = "") =>
        LET a == ValidateAccessToken(SecretKey, last.resp[1].AccessToken, now)
            u == FindUserByID(users, ValidateRefreshToken(SecretKey, last.token, now).id)
        IN
        /\ a.err = ""
        /\ u # <<>>
        /\ a.claims[1].UserID = u[1].ID
        /\ a.claims[1].Role = u[1].Role

\* The kept refresh token was refreshed after time passed and after the role
\* stored for its user was changed: the access token issued with it carries
\* another role than the new access token.
C4_Witness ==
    /\ last.op = "RefreshToken"
    /\ last.err = ""
    /\ held # <<>>
    /\ last.token = held[1].RefreshToken
    /\ now > last.token.claims.iat
    /\ held[1].AccessToken.claims.role # last.resp[1].AccessToken.claims.role

----------------------------------------------------------------------------
(* Properties: the order use cases (SpecOrder) *)

StoredOrder(id) == {orders[i] : i \in {j \in 1..Len(orders) : orders[j].ID = id}}
StoredUser(id) == {users[i] : i \in {j \in 1..Len(users) : users[j].ID = id}}

\* C3: getOrder returns an order only if the order and the requester are
\* stored and the requester owns the order or has the stored role analyst or
\* admin, and then it returns that order; the owner gets the order, an
\* analyst or admin gets any stored order, and a viewer who is not the owner
\* gets "access denied" and no order.
C3_GetOrderAccess ==
    last.op = "GetOrder" =>
        LET os == StoredOrder(last.orderID)
            us == StoredUser(last.userID)
        IN
        /\ last.order # <<>> =>
               /\ last.err = ""
               /\ last.order[1].row \in os
               /\ \E u \in us : \/ last.order[1].row.UserID = u.ID
                                \/ u.Role \in {RoleAnalyst, RoleAdmin}
        /\ \A o \in os, u \in us :
               /\ o.UserID = u.ID => last.order # <<>>
               /\ u.Role \in {RoleAnalyst, RoleAdmin} => last.order # <<>>
               /\ (u.Role = RoleViewer /\ o.UserID # u.ID) =>
                      last.order = <<>> /\ last.err = "access denied"

\* A viewer asked for the stored order of another user and was denied.
C3_Witness ==
    /\ last.op = "GetOrder"
    /\ last.err = "access denied"
    /\ \E o \in StoredOrder(last.orderID), u \in StoredUser(last.userID) :
           u.Role = RoleViewer /\ o.UserID # u.ID

SaveCalls(calls) == SelectSeq(calls, LAMBDA c : c.call = "orderRepo.Save")

\* C9: createOrder checks the item, then the user, then the permission: an
\* item outside the allow-list fails with "invalid item_id" without a store
\* call, whoever the user; otherwise an unknown user fails with "user not
\* found"; a successful call saved exactly one order, which is the newest
\* stored order, is owned by the caller and is confirmed, and the response
\* carries its id and status; a failed call returns no response and its
\* error is the error of the failed save if a save was made.
C9_CreateOrder ==
    last.op = "CreateOrder" =>
        /\ last.itemID \notin {"intel-basic", "intel-premium", "intel-enterprise"} =>
               last.err = "invalid item_id" /\ last.calls = <<>>
        /\ (last.itemID \in {"intel-basic", "intel-premium", "intel-enterprise"}
                /\ StoredUser(last.userID) = {}) => last.err = "user not found"
        /\ last.err = "" =>
               /\ Len(SaveCalls(last.calls)) = 1
               /\ orders # <<>>
               /\ LET o == orders[Len(orders)] IN
                  /\ o = SaveCalls(last.calls)[1].arg
                  /\ Cardinality(StoredOrder(o.ID)) = 1
                  /\ o.UserID = last.userID
                  /\ o.Status = OrderStatusConfirmed
                  /\ last.resp = <<[OrderID |-> UUIDString(o.ID), Status |-> o.Status]>>
        /\ last.err # "" =>
               /\ last.resp = <<>>
               /\ SaveCalls(last.calls) # <<>> => last.err \in StoreErrors
               /\ \A i \in 1..Len(last.calls), j \in 1..Len(orders) :
                      last.calls[i].call = "orderRepo.Save" => orders[j] # last.calls[i].arg

\* A viewer created an order.
C9_Witness ==
    /\ last.op = "CreateOrder"
    /\ last.err = ""
    /\ \E u \in StoredUser(last.userID) : u.Role = RoleViewer

----------------------------------------------------------------------------
(* Properties: the order workflow (SpecWorkflow) *)

LegalTransition(from, to) ==
    \/ from = to
    \/ from = OrderStatusPending /\ to \in {OrderStatusConfirmed, OrderStatusCancelled}
    \/ from = OrderStatusConfirmed /\ to \in {OrderStatusCompleted, OrderStatusCancelled}

\* C10: a call of confirm, complete or cancel moves the status of an order
\* only along pending -> confirmed -> completed, or to cancelled from pending
\* or confirmed; a completed or cancelled order keeps its status.
C10_LegalTransitionsOnly ==
    [][(agg # <<>> /\ agg' # <<>> /\ agg'[1].ID = agg[1].ID)
           => LegalTransition(agg[1].Status, agg'[1].Status)]_vars

----------------------------------------------------------------------------
\* The order after a status method set its status at the current time.
StatusSet(o, status) == [o EXCEPT !.Status = status, !.UpdatedAt = now]

\* C11: a new order starts pending, and confirm, complete and cancel, called
\* on an order in any status, set the status to confirmed, completed or
\* cancelled and the update timestamp to the current time, never earlier
\* than the previous one; id, owner, item, quantity and creation timestamp
\* stay as they were.
C11_UnconditionalSetters ==
    [][/\ last'.op = "NewOrder" =>
              /\ agg'[1].Status = OrderStatusPending
              /\ agg'[1].CreatedAt = now
              /\ agg'[1].UpdatedAt = now
       /\ last'.op = "Confirm" =>
              /\ agg'[1] = StatusSet(agg[1], OrderStatusConfirmed)
              /\ agg'[1].UpdatedAt >= agg[1].UpdatedAt
       /\ last'.op = "Complete" =>
              /\ agg'[1] = StatusSet(agg[1], OrderStatusCompleted)
              /\ agg'[1].UpdatedAt >= agg[1].UpdatedAt
       /\ last'.op = "Cancel" =>
              /\ agg'[1] = StatusSet(agg[1], OrderStatusCancelled)
              /\ agg'[1].UpdatedAt >= agg[1].UpdatedAt]_vars

\* An order was confirmed after time had advanced.
C11_Witness ==
    /\ last.op = "Confirm"
    /\ agg # <<>>
    /\ agg[1].Status = OrderStatusConfirmed
    /\ agg[1].UpdatedAt = now
    /\ agg[1].UpdatedAt > agg[1].CreatedAt

----------------------------------------------------------------------------
(* Properties: the middleware (SpecMiddleware) *)

\* A handler of this name ran during the last request.
Ran(name) == \E i \in 1..Len(last.c.ran) : last.c.ran[i].h = name

HasBearerPrefix(header) == header # <<>> /\ Head(header) = BearerPrefix

\* C5: Auth answers 401 and aborts the chain when the Authorization header
\* is missing, when it lacks the "Bearer " prefix, and when the verification
\* of the token fails; the verification is not called in the first two
\* cases; on success the id and the role of the token are attached to the
\* request and the next handler runs. Nothing is attached otherwise.
C5_Auth ==
    last.op = "Auth" =>
        LET header == last.req.header
            c == last.c
            v == ValidateAccessToken(SecretKey, AsToken(Tail(header)), now)
            rejected == /\ c.status = 401
                        /\ c.aborted
                        /\ ~Ran("Stub")
                        /\ c.user_id = <<>>
                        /\ c.user_role = <<>>
        IN
        /\ ~HasBearerPrefix(header) => rejected /\ c.validated = <<>>
        /\ HasBearerPrefix(header) /\ v.err # "" =>
               rejected /\ c.validated = <<Tail(header)>>
        /\ HasBearerPrefix(header) /\ v.err = "" =>
               /\ c.user_id = <<v.claims[1].UserID>>
               /\ c.user_role = <<v.claims[1].Role>>
               /\ ~c.aborted
               /\ Ran("Stub")
               /\ c.status = 200

\* Auth rejected an expired access token after calling the verification.
C5_Witness ==
    /\ last.op = "Auth"
    /\ last.req.header = <<BearerPrefix, Tok(GenerateAccessToken(SecretKey, 1, RoleAdmin, 0))>>
    /\ now >= AccessTokenTTL
    /\ last.c.status = 401
    /\ last.c.aborted
    /\ last.c.validated # <<>>

\* The ranks the role rule names; any other role ranks below them.
Rank(role) ==
    IF role = RoleAdmin THEN 3
    ELSE IF role = RoleAnalyst THEN 2
    ELSE IF role = RoleViewer THEN 1
    ELSE 0

\* C7: RequireRole(min) lets a request continue exactly if the rank of the
\* attached role (Viewer 1, Analyst 2, Admin 3) is at least the rank of
\* min, and answers 403 otherwise; it answers 401 when no role is attached.
C7_RequireRole ==
    last.op = "RequireRole" =>
        LET c == last.c IN
        /\ last.attached = <<>> => c.status = 401 /\ c.aborted /\ ~Ran("Stub")
        /\ last.attached # <<>> =>
               IF Rank(last.attached[1]) >= Rank(last.requiredRole)
               THEN ~c.aborted /\ Ran("Stub") /\ c.status = 200
               ELSE c.status = 403 /\ c.aborted /\ ~Ran("Stub")

\* An analyst was refused what takes an admin.
C7_Witness ==
    /\ last.op = "RequireRole"
    /\ last.attached = <<RoleAnalyst>>
    /\ last.requiredRole = RoleAdmin
    /\ last.c.status = 403
    /\ last.c.aborted

----------------------------------------------------------------------------
(* Properties: the routes (SpecHttp) *)

\* Auth gave the token of the request's Authorization header to the
\* verification, and the verification accepted it.
TokenValidated ==
    /\ Ran("Auth")
    /\ last.c.validated # <<>>
    /\ last.req.header = <<BearerPrefix>> \o last.c.validated[1]
    /\ ValidateAccessToken(SecretKey, AsToken(last.c.validated[1]), now).err = ""

\* RequireRole(role) ran before the handler of this name.
Required(role, name) ==
    \E i, j \in 1..Len(last.c.ran) :
        /\ i < j
        /\ last.c.ran[i] = Require(role)
        /\ last.c.ran[j].h = name

\* No order, admin or analyst handler runs unless Auth validated a token of
\* the request, and the admin and analyst handlers run only behind
\* RequireRole(Admin) and RequireRole(Analyst), for a role of that rank.
HandlersBehindAuth ==
    /\ \A name \in ProtectedHandlers : Ran(name) => TokenValidated
    /\ Ran("AdminUsers") =>
           /\ Required(RoleAdmin, "AdminUsers")
           /\ Rank(last.c.user_role[1]) >= Rank(RoleAdmin)
    /\ Ran("AnalystReports") =>
           /\ Required(RoleAnalyst, "AnalystReports")
           /\ Rank(last.c.user_role[1]) >= Rank(RoleAnalyst)

NoAuthorization ==
    /\ <<last.req.method, last.req.path>> \in ApiRoutes
    /\ last.req.header = <<>>

----------------------------------------------------------------------------
(* Properties: the rate limiter (SpecLimiter) *)

\* The handlers that run before the limiter decides, the limiter included.
UpToRateLimit == <<H("NewRelic"), H("CORS"), H("Logger"), H("RateLimit")>>

----------------------------------------------------------------------------
(* Properties: concurrent requests in the rate limiter (SpecConcurrentLimiter) *)

\* The tokens there have been so far: the burst and one for every refill
\* time that has passed.
TokensMadeAvailable == Burst + (now \div RefillMinutes)

----------------------------------------------------------------------------
(* Properties: Register calls at the same time (SpecConcurrentRegister) *)

NoTwoUsersWithOneEmail ==
    \A i, j \in 1..Len(users) : users[i].Email = users[j].Email => i = j

\* C14: whatever the interleaving of Register calls, no two stored users
\* have the same email, and a Register call for an email that is stored
\* when the call comes to save fails with "email already exists" and stores
\* nothing.
C14_UniqueEmail ==
    /\ NoTwoUsersWithOneEmail
    /\ last.op = "RegisterSave" /\ last.stored =>
           /\ last.err = "email already exists"
           /\ last.resp = <<>>
           /\ ~last.saved

----------------------------------------------------------------------------
(* Properties: the jwt service (SpecTokens) *)

\* The last call verified the held token as the kind it was issued as.
VerifiedAsIssued == last.op = "VerifyToken" /\ last.as = last.issued.kind

\* C15: a token is accepted by the service that issued it before its
\* expiry and gives back what was put in: the claims of an access token
\* carry the id and the role it was issued for, and a refresh token gives
\* the id it was issued for.
C15_RoundTrip ==
    VerifiedAsIssued /\ last.key = last.issued.key /\ now < last.issued.token.claims.exp =>
        IF last.as = "access"
        THEN /\ last.result.err = ""
             /\ last.result.claims # <<>>
             /\ last.result.claims[1].UserID = last.issued.id
             /\ last.result.claims[1].Role = last.issued.role
        ELSE last.result = [id |-> last.issued.id, err |-> ""]

\* A refresh token for user 1 came back from its verification.
C15_Witness ==
    /\ VerifiedAsIssued
    /\ last.as = "refresh"
    /\ last.key = last.issued.key
    /\ last.issued.id = 1
    /\ last.result = [id |-> 1, err |-> ""]

\* C16: a verifier with another secret than the signer's rejects the token,
\* access or refresh, expired or not: it returns an error with nil claims
\* or the nil id.
C16_WrongSecret ==
    last.op = "VerifyToken" /\ last.key # last.issued.key =>
        /\ last.result.err # ""
        /\ IF last.as = "access"
           THEN last.result.claims = <<>>
           ELSE last.result.id = NilUUID

\* An access token that has not expired was rejected for its signature.
C16_Witness ==
    /\ VerifiedAsIssued
    /\ last.as = "access"
    /\ last.key # last.issued.key
    /\ now < last.issued.at + 15
    /\ last.result.err = "token signature is invalid"
    /\ last.result.claims = <<>>

\* C17: an access token expires 15 minutes and a refresh token 7 days after
\* it was issued: the issuing service accepts the token while that time has
\* not elapsed, and once it has elapsed every verification of the token
\* fails.
C17_Expiry ==
    last.op = "VerifyToken" =>
        LET lifetime == IF last.issued.kind = "access" THEN 15 ELSE 7 * 24 * 60 IN
        /\ now >= last.issued.at + lifetime => last.result.err # ""
        /\ (/\ now < last.issued.at + lifetime
            /\ last.as = last.issued.kind
            /\ last.key = last.issued.key) => last.result.err = ""

\* An access token was rejected 15 minutes after it was issued.
C17_Witness ==
    /\ VerifiedAsIssued
    /\ last.as = "access"
    /\ last.key = last.issued.key
    /\ now = last.issued.at + 15
    /\ last.result.err = "token is expired"

----------------------------------------------------------------------------
(* Properties: token kinds at the access boundary (SpecMiddleware) *)

\* The request carries a refresh token of the service as its Bearer token.
BearsRefreshToken ==
    /\ last.op = "Auth"
    /\ \E id \in TokenUserIDs :
           last.req.header = <<BearerPrefix, Tok(GenerateRefreshToken(SecretKey, id, 0))>>

\* C18: a refresh token presented as a Bearer access token is rejected by
\* the verification of access tokens: Auth answers 401, aborts, and attaches
\* no user id and no role.
C18_RefreshTokenIsNoAccessToken ==
    BearsRefreshToken =>
        /\ last.c.status = 401
        /\ last.c.aborted
        /\ last.c.user_id = <<>>
        /\ last.c.user_role = <<>>

----------------------------------------------------------------------------
(* Properties: permissions (SpecPermission) *)

\* The pairs <<role, required role>> of the three roles that are to be
\* satisfied.
Satisfies ==
    {<<RoleAdmin, RoleViewer>>, <<RoleAdmin, RoleAnalyst>>, <<RoleAdmin, RoleAdmin>>,
     <<RoleAnalyst, RoleViewer>>, <<RoleAnalyst, RoleAnalyst>>,
     <<RoleViewer, RoleViewer>>}

\* C19: HasPermission is true exactly when the rank of the user's role is
\* at least the rank of the required role, with Admin 3, Analyst 2 and
\* Viewer 1: Admin satisfies all three, Analyst satisfies Viewer and Analyst
\* but not Admin, Viewer satisfies only Viewer.
C19_HasPermission ==
    last.op = "HasPermission" =>
        LET known == {RoleViewer, RoleAnalyst, RoleAdmin} IN
        /\ last.result <=> Rank(last.user.Role) >= Rank(last.requiredRole)
        /\ last.user.Role \in known /\ last.requiredRole \in known =>
               (last.result <=> <<last.user.Role, last.requiredRole>> \in Satisfies)

\* An analyst does not satisfy Admin.
C19_Witness ==
    /\ last.op = "HasPermission"
    /\ last.user.Role = RoleAnalyst
    /\ last.requiredRole = RoleAdmin
    /\ ~last.result

----------------------------------------------------------------------------
(* Properties: the roles of registered users (SpecRegisterRequests) *)

\* C20: after any sequence of registrations every stored user has one of
\* the roles Viewer, Analyst and Admin.
C20_StoredRolesAreKnown ==
    \A i \in 1..Len(users) : users[i].Role \in {RoleViewer, RoleAnalyst, RoleAdmin}


----------------------------------------------------------------------------
(* Properties: the persisted orders (SpecCreateOrders) *)

----------------------------------------------------------------------------
(* Properties: store failures at the handlers (SpecStoreFailures) *)

\* C22: a request during which a store call failed is answered with the
\* message of the failure and status 500: a response that carries the
\* message of a store failure has status 500.
C22_StoreFailureIs500 ==
    last.op \in {"PostRegister", "PostCreateOrder", "GetOrdersRequest"} =>
        (last.c.body \in {ErrorBody(e) : e \in StoreFailures} => last.c.status = 500)

----------------------------------------------------------------------------
(* Properties: token refresh, token by token (SpecSessions) *)

\* The token verifies as a refresh token of the service: it is a JWT signed
\* with the secret of the service, it has not expired and its subject is a
\* UUID.
Verifies(tok) ==
    /\ tok.form = "jwt"
    /\ tok.key = SecretKey
    /\ "exp" \in DOMAIN tok.claims => now < tok.claims.exp
    /\ "sub" \in DOMAIN tok.claims
    /\ tok.claims.sub[1] = "uuid"

\* C23: refreshToken fails with "invalid refresh token" for every token
\* that does not verify (malformed, signed with another secret, expired,
\* with a subject that is no id) and with "user not found" if the token
\* verifies and no stored user has the id of its subject; in both cases it
\* returns no response, so no token.
C23_RefreshFailures ==
    last.op = "RefreshToken" =>
        /\ ~Verifies(last.token) =>
               last.err = "invalid refresh token" /\ last.resp = <<>>
        /\ (Verifies(last.token) /\ StoredUser(last.token.claims.sub[2]) = {}) =>
               last.err = "user not found" /\ last.resp = <<>>
        /\ last.err # "" => last.resp = <<>>

\* The refresh of a token whose subject is no UUID failed, while a user was
\* stored.
C23_Witness ==
    /\ last.op = "RefreshToken"
    /\ users # <<>>
    /\ last.token.form = "jwt"
    /\ last.token.key = SecretKey
    /\ "sub" \in DOMAIN last.token.claims
    /\ last.token.claims.sub[1] # "uuid"
    /\ last.err = "invalid refresh token"
    /\ last.resp = <<>>

\* The token is an access token as the service issues them.
IsIssuedAccessToken(tok) ==
    /\ tok.form = "jwt"
    /\ {"user_id", "role", "iat"} \subseteq DOMAIN tok.claims
    /\ tok = GenerateAccessToken(SecretKey, tok.claims.user_id, tok.claims.role,
                                 tok.claims.iat)

\* C24: refreshToken does not accept an access token: it fails with
\* "invalid refresh token" and returns no tokens.
C24_AccessTokenIsNoRefreshToken ==
    (last.op = "RefreshToken" /\ IsIssuedAccessToken(last.token)) =>
        last.err = "invalid refresh token" /\ last.resp = <<>>

\* The stored users that are not active.
InactiveUsers == {u \in {users[i] : i \in 1..Len(users)} : ~u.IsActive}

\* The token is a refresh token that the service issued for the user.
IsRefreshTokenOf(tok, u) ==
    /\ tok.form = "jwt"
    /\ "iat" \in DOMAIN tok.claims
    /\ tok = GenerateRefreshToken(SecretKey, u.ID, tok.claims.iat)

\* C25: while the active flag of a user is false no call issues tokens for
\* that user: a login with the user's email fails with "account is inactive"
\* and a refresh with a refresh token of the user returns no response.
C25_NoTokensForInactiveUsers ==
    \A u \in InactiveUsers :
        /\ (last.op = "Login" /\ last.email = u.Email) =>
               last.err = "account is inactive" /\ last.resp = <<>>
        /\ (last.op = "RefreshToken" /\ IsRefreshTokenOf(last.token, u)) =>
               last.resp = <<>>

\* The stored users for whom the service issued the token as a refresh token.
OwnersOf(tok) == {u \in {users[i] : i \in 1..Len(users)} : IsRefreshTokenOf(tok, u)}

\* C26: a refresh token of a stored user is accepted by refreshToken as long
\* as 7 days have not passed since it was issued, whatever was called before
\* and however often it has been accepted already; each call returns an
\* access token and a refresh token issued at the time of the call, and the
\* presented token would be accepted again.
C26_RefreshTokenIsReusable ==
    last.op = "RefreshToken" =>
        \A u \in OwnersOf(last.token) :
            now < last.token.claims.iat + 7 * 24 * 60 =>
                /\ last.err = ""
                /\ last.resp # <<>>
                /\ last.resp[1].AccessToken = GenerateAccessToken(SecretKey, u.ID, u.Role, now)
                /\ last.resp[1].RefreshToken = GenerateRefreshToken(SecretKey, u.ID, now)
                /\ AuthServiceRefreshToken(users, last.token, now).err = ""

\* The kept refresh token was accepted twice in a row, minutes after it was
\* issued.
C26_Witness ==
    /\ last.op = "RefreshToken"
    /\ last.again
    /\ last.err = ""
    /\ held # <<>>
    /\ last.token = held[1].RefreshToken
    /\ OwnersOf(last.token) # {}
    /\ now > last.token.claims.iat

----------------------------------------------------------------------------
(* Properties: the role of an issued access token (SpecIssuedRoles) *)

\* C27: for an access token that has not expired, the role attached to the
\* request is the role the token was issued with, and RequireRole decides on
\* that role, whatever role is stored for the user when the request is
\* served.
C27_RoleOfTheToken ==
    (last.op = "RoleRequest" /\ now < last.token.claims.exp) =>
        /\ last.c.user_role = <<last.token.claims.role>>
        /\ IF Rank(last.token.claims.role) >= Rank(last.route.role)
           THEN last.c.status = 200 /\ ~last.c.aborted /\ Ran(last.route.handler)
           ELSE last.c.status = 403 /\ last.c.aborted /\ ~Ran(last.route.handler)

\* A token issued to an admin opened the admin route after the stored role
\* of its user had become viewer.
C27_Witness ==
    /\ last.op = "RoleRequest"
    /\ last.route.role = RoleAdmin
    /\ last.token.claims.role = RoleAdmin
    /\ \E u \in StoredUser(last.token.claims.user_id) : u.Role = RoleViewer
    /\ last.c.status = 200
    /\ Ran("AdminUsers")

----------------------------------------------------------------------------
(* Properties: the two role checks (SpecMiddleware) *)

\* A user with the role.
UserWithRole(role) == NewUser(1, AccountEmail, AccountPassword, role)

\* C28: for every attached role and every required role, the three roles
\* or any other string, RequireRole lets the request continue exactly when
\* HasPermission is true for a user with the attached role.
C28_RoleChecksAgree ==
    (last.op = "RequireRole" /\ last.attached # <<>>) =>
        LET continues == ~last.c.aborted /\ Ran("Stub") /\ last.c.status = 200 IN
        /\ continues <=> HasPermission(UserWithRole(last.attached[1]), last.requiredRole)
        /\ ~continues => last.c.status = 403

\* A request with a role outside the three passed a requirement outside the
\* three, as HasPermission allows it.
C28_Witness ==
    /\ last.op = "RequireRole"
    /\ last.attached = <<"guest">>
    /\ last.requiredRole = "guest"
    /\ ~last.c.aborted
    /\ Ran("Stub")
    /\ HasPermission(UserWithRole("guest"), "guest")

----------------------------------------------------------------------------
(* Properties: what a denied request for an order tells (SpecOrderRequests) *)

\* The response to the same request from the same requester if no order
\* were stored.
ResponseWithoutOrders(req, userID) ==
    Response(HandlerGetOrder([NewContext(users, <<>>, limiter) EXCEPT !.user_id = userID], req))

\* C29: a requester who does not own the order and whose stored role is
\* below analyst gets, for an order that exists, the status and the body of
\* the response for an order that does not exist, and the status is 404.
C29_DenialHidesExistence ==
    last.op = "GetOrderRequest" =>
        \A o \in StoredOrder(UUIDParse(last.req.param).id), u \in StoredUser(last.c.user_id[1]) :
            (o.UserID # u.ID /\ Rank(u.Role) < Rank(RoleAnalyst)) =>
                LET absent == ResponseWithoutOrders(last.req, last.c.user_id) IN
                /\ last.c.status = 404
                /\ last.c.status = absent.status
                /\ last.c.body = absent.body

----------------------------------------------------------------------------
(* Properties: what the use cases write (SpecServices) *)

\* The store after the step is the store before it with one row added.
OneRowAdded(before, after) ==
    /\ Len(after) = Len(before) + 1
    /\ SubSeq(after, 1, Len(before)) = before

\* The rows of the store before the step are in the store after it.
NoRowDeleted(before, after) ==
    \A i \in 1..Len(before) : \E j \in 1..Len(after) : after[j].ID = before[i].ID

====
